---- MODULE Spec2Model ----
(***************************************************************************)
(* A model of the pdfxpert file converter: the Flask routes of src/app.py  *)
(* (register, login, logout, the login gate, the conversion routes, merge  *)
(* and split) and the helpers of src/utils.py (random_filename,            *)
(* convert_office_to_pdf, image_to_pdf, merge_pdfs, split_pdf).            *)
(*                                                                         *)
(* Strings whose characters the code inspects (file names, the 'pages'     *)
(* form field) are sequences of one-character strings.  Strings the code   *)
(* only compares or tests for emptiness (user names, passwords, flash      *)
(* messages) are TLA+ strings.  Of the session only the keys the routes    *)
(* read are kept: a flashed message, which Flask also keeps in the session *)
(* until a template shows it, is recorded with the response instead.       *)
(* uuid4 tokens are numbered in the order drawn, so no two are equal.      *)
(***************************************************************************)
EXTENDS Integers, Sequences, FiniteSets, TLC

VARIABLES
    users,      \* the rows of table users, in insertion order
    session,    \* the browser's Flask session: a function on its keys
    uploads,    \* the files of UPLOAD_DIR
    converted,  \* the files of CONVERTED_DIR
    uuid,       \* how many uuid4 tokens random_filename has drawn
    last,       \* the last request and the response it was given
    args,       \* the arguments of a direct call of a utils function
    ret         \* what that call returned and left on disk

vars == <<users, session, uploads, converted, uuid, last, args, ret>>

appVars == <<users, session, uploads, converted, uuid, last>>

(***************************************************************************)
(* Bounds of the model.                                                    *)
(***************************************************************************)
\* random_filename is called at most this many times before POSTs that store stop
MaxTokens == 1
\* the longest page list handed to split_pdf directly
MaxPages == 3
\* the largest page count of a source document
MaxDocPages == 3
\* the most documents handed to merge_pdfs directly
MaxDocs == 3
\* the most comma-separated parts of a 'pages' field
MaxParts == 2
\* the largest bound of a range written in a 'pages' field
MaxNum == 4

(***************************************************************************)
(* Character strings.                                                      *)
(***************************************************************************)
UpperChars == <<"A","B","C","D","E","F","G","H","I","J","K","L","M",
                "N","O","P","Q","R","S","T","U","V","W","X","Y","Z">>

LowerChars == <<"a","b","c","d","e","f","g","h","i","j","k","l","m",
                "n","o","p","q","r","s","t","u","v","w","x","y","z">>

\* str.lower() on one character
LowerChar(c) ==
    IF \E i \in 1..Len(UpperChars) : UpperChars[i] = c
    THEN LowerChars[CHOOSE i \in 1..Len(UpperChars) : UpperChars[i] = c]
    ELSE c

\* str.lower()
Lower(s) == [i \in 1..Len(s) |-> LowerChar(s[i])]

\* str.endswith(suffix)
EndsWith(s, suf) ==
    /\ Len(s) >= Len(suf)
    /\ SubSeq(s, Len(s) - Len(suf) + 1, Len(s)) = suf

\* str.endswith(tuple of suffixes)
EndsWithAny(s, sufs) == \E suf \in sufs : EndsWith(s, suf)

\* the last index of character c in s, 0 when there is none (str.rfind + 1)
LastIndex(s, c) ==
    IF \E i \in 1..Len(s) : s[i] = c
    THEN CHOOSE i \in 1..Len(s) : s[i] = c /\ \A j \in (i+1)..Len(s) : s[j] # c
    ELSE 0

\* os.path.splitext(filename)[1]: from the last dot of the base name on, unless
\* only dots precede it there
splitext_ext(filename) ==
    LET sep == LastIndex(filename, "/")
        dot == LastIndex(filename, ".")
    IN  IF dot > sep /\ \E k \in (sep+1)..(dot-1) : filename[k] # "."
        THEN SubSeq(filename, dot, Len(filename))
        ELSE <<>>

(***************************************************************************)
(* Files.                                                                  *)
(***************************************************************************)
\* the pages of a PDF document named d with n pages
DocPages(d, n) == [k \in 1..n |-> <<d, k>>]

Pdf(pages) == [kind |-> "pdf", pages |-> pages]
Office == [kind |-> "office", pages |-> <<>>]
Picture == [kind |-> "image", pages |-> <<>>]
Junk == [kind |-> "junk", pages |-> <<>>]

\* open(path, "wb") ... write: the file of that name is created or replaced
WriteFile(dir, name, data) ==
    {f \in dir : f.name # name} \cup {[name |-> name, data |-> data]}

\* random_filename: the n-th uuid4 token followed by the extension of filename
random_filename(n, filename) == [token |-> n, ext |-> splitext_ext(filename)]

\* the bytes of the file called name in directory dir
ReadFile(dir, name) == (CHOOSE f \in dir : f.name = name).data

\* PdfReader(path): whether pypdf can open the file
PdfReader_ok(data) == data.kind = "pdf"

(***************************************************************************)
(* utils.merge_pdfs                                                        *)
(***************************************************************************)
\* add_pages stepping over every second page
RECURSIVE add_pages_skipping(_, _, _)
add_pages_skipping(writer, pages, j) ==
    IF j > Len(pages) THEN writer
    ELSE add_pages_skipping(Append(writer, pages[j]), pages, j + 2)

\* for page in reader.pages: writer.add_page(page)
RECURSIVE add_pages(_, _, _)
add_pages(writer, pages, j) ==
    IF j > Len(pages) THEN writer
    ELSE add_pages(Append(writer, pages[j]), pages, j + 1)

\* for fp in file_paths: the writer after the files from the i-th on, or the
\* exception PdfReader raised
RECURSIVE merge_loop(_, _, _, _)
merge_loop(file_paths, i, writer, indir) ==
    IF i > Len(file_paths) THEN [exc |-> "", writer |-> writer]
    ELSE LET data == ReadFile(indir, file_paths[i])
         IN  IF ~PdfReader_ok(data)
             THEN [exc |-> "PdfReadError", writer |-> writer]
             ELSE merge_loop(file_paths, i + 1,
                             add_pages(writer, data.pages, 1), indir)

\* merge_pdfs(file_paths, out_path): the exception raised ("" for none) and the
\* output directory it leaves
merge_pdfs(file_paths, out_path, indir, outdir) ==
    LET r == merge_loop(file_paths, 1, <<>>, indir)
    IN  IF r.exc # "" THEN [exc |-> r.exc, outdir |-> outdir]
        ELSE [exc |-> "", outdir |-> WriteFile(outdir, out_path, Pdf(r.writer))]

(***************************************************************************)
(* utils.split_pdf                                                         *)
(***************************************************************************)
\* split_loop without the conversion to a 0-based index
RECURSIVE split_loop_one_based(_, _, _, _)
split_loop_one_based(reader, pages, i, writer) ==
    IF i > Len(pages) THEN [exc |-> "", writer |-> writer]
    ELSE LET idx == pages[i]
         IN  IF idx < 0 \/ idx >= Len(reader)
             THEN [exc |-> "IndexError", writer |-> writer]
             ELSE split_loop_one_based(reader, pages, i + 1,
                                       Append(writer, reader[idx + 1]))

\* for p in pages: the writer after the entries from the i-th on, or IndexError
RECURSIVE split_loop(_, _, _, _)
split_loop(reader, pages, i, writer) ==
    IF i > Len(pages) THEN [exc |-> "", writer |-> writer]
    ELSE LET idx == pages[i] - 1
         IN  IF idx < 0 \/ idx >= Len(reader)
             THEN [exc |-> "IndexError", writer |-> writer]
             ELSE split_loop(reader, pages, i + 1,
                             Append(writer, reader[idx + 1]))

\* split_pdf with the output opened before the loop: an IndexError leaves the
\* file behind
split_pdf_opened_first(pdf_path, pages, out_path, indir, outdir) ==
    LET data == ReadFile(indir, pdf_path)
    IN  IF ~PdfReader_ok(data) THEN [exc |-> "PdfReadError", outdir |-> outdir]
        ELSE LET r == split_loop(data.pages, pages, 1, <<>>)
             IN  [exc |-> r.exc,
                  outdir |-> WriteFile(outdir, out_path,
                                 Pdf(IF r.exc # "" THEN <<>> ELSE r.writer))]

\* split_pdf(pdf_path, pages, out_path): the exception raised ("" for none) and
\* the output directory it leaves
split_pdf(pdf_path, pages, out_path, indir, outdir) ==
    LET data == ReadFile(indir, pdf_path)
    IN  IF ~PdfReader_ok(data) THEN [exc |-> "PdfReadError", outdir |-> outdir]
        ELSE LET r == split_loop(data.pages, pages, 1, <<>>)
             IN  IF r.exc # "" THEN [exc |-> r.exc, outdir |-> outdir]
                 ELSE [exc |-> "",
                       outdir |-> WriteFile(outdir, out_path, Pdf(r.writer))]

(***************************************************************************)
(* utils.convert_office_to_pdf and utils.image_to_pdf                      *)
(***************************************************************************)
\* what the soffice subprocess can do: exit 0 having written the PDF, exit
\* non-zero, or exit 0 without having written it
SofficeOutcomes == {"written", "failed", "nothing"}

\* convert_office_to_pdf(input_path, output_dir) under one outcome of soffice:
\* the exception raised, the path returned and the output directory left
convert_office_to_pdf(input_path, outcome, outdir) ==
    LET output_file == [token |-> input_path.token, ext |-> <<".", "p", "d", "f">>]
    IN  IF outcome = "failed"
        THEN [exc |-> "RuntimeError", path |-> output_file, outdir |-> outdir]
        ELSE IF outcome = "nothing" /\ ~\E f \in outdir : f.name = output_file
        THEN [exc |-> "RuntimeError", path |-> output_file, outdir |-> outdir]
        ELSE IF outcome = "nothing"
        THEN [exc |-> "", path |-> output_file, outdir |-> outdir]
        ELSE [exc |-> "", path |-> output_file,
              outdir |-> WriteFile(outdir, output_file,
                                   Pdf(<<<<"converted", input_path.token>>>>))]

\* image_to_pdf(input_path, output_path): Image.open raises on what is no image
image_to_pdf(input_path, output_path, indir, outdir) ==
    IF ReadFile(indir, input_path).kind # "image"
    THEN [exc |-> "UnidentifiedImageError", outdir |-> outdir]
    ELSE [exc |-> "",
          outdir |-> WriteFile(outdir, output_path,
                               Pdf(<<<<"image", input_path.token>>>>))]

(***************************************************************************)
(* The 'pages' form field of the split route (app.py, split).              *)
(***************************************************************************)
DigitChars == <<"0", "1", "2", "3", "4", "5", "6", "7", "8", "9">>

IsDigit(c) == \E i \in 1..Len(DigitChars) : DigitChars[i] = c

DigitValue(c) == (CHOOSE i \in 1..Len(DigitChars) : DigitChars[i] = c) - 1

\* c in s
Contains(s, c) == \E i \in 1..Len(s) : s[i] = c

\* str.split(c): the pieces of s between the occurrences of c
RECURSIVE str_split(_, _)
str_split(s, c) ==
    IF ~Contains(s, c) THEN <<s>>
    ELSE LET i == CHOOSE k \in 1..Len(s) :
                      s[k] = c /\ \A j \in 1..(k-1) : s[j] # c
         IN  <<SubSeq(s, 1, i - 1)>> \o str_split(SubSeq(s, i + 1, Len(s)), c)

\* str.strip(): s without its leading and trailing blanks
str_strip(s) ==
    IF \A i \in 1..Len(s) : s[i] = " " THEN <<>>
    ELSE LET a == CHOOSE k \in 1..Len(s) :
                      s[k] # " " /\ \A j \in 1..(k-1) : s[j] = " "
             b == CHOOSE k \in 1..Len(s) :
                      s[k] # " " /\ \A j \in (k+1)..Len(s) : s[j] = " "
         IN  SubSeq(s, a, b)

\* whether int(s) returns (blanks around the digits are allowed) or raises
\* ValueError
int_ok(s) ==
    LET t == str_strip(s)
    IN  Len(t) > 0 /\ \A i \in 1..Len(t) : IsDigit(t[i])

RECURSIVE decimal(_, _, _)
decimal(t, i, acc) ==
    IF i > Len(t) THEN acc ELSE decimal(t, i + 1, 10 * acc + DigitValue(t[i]))

\* int(s), where int_ok(s)
int(s) == decimal(str_strip(s), 1, 0)

\* list(range(start, stop))
range(start, stop) == [k \in 1..(stop - start) |-> start + k - 1]

\* the range without its last page
expand_range_exclusive(start, end) == range(start, end)

\* page_list.extend(range(start, end + 1)): the pages of the range start-end
expand_range(start, end) == range(start, end + 1)

\* for part in pages.split(","): page_list after the parts from the i-th on, or
\* the ValueError of int() or of unpacking into start, end
RECURSIVE expand_parts(_, _, _)
expand_parts(parts, i, page_list) ==
    IF i > Len(parts) THEN [exc |-> "", list |-> page_list]
    ELSE LET part == str_strip(parts[i])
         IN  IF Contains(part, "-")
             THEN LET pieces == str_split(part, "-")
                  IN  IF \/ Len(pieces) # 2
                         \/ \E k \in 1..Len(pieces) : ~int_ok(pieces[k])
                      THEN [exc |-> "ValueError", list |-> page_list]
                      ELSE expand_parts(parts, i + 1,
                               page_list \o expand_range(int(pieces[1]), int(pieces[2])))
             ELSE IF ~int_ok(part)
                  THEN [exc |-> "ValueError", list |-> page_list]
                  ELSE expand_parts(parts, i + 1, Append(page_list, int(part)))

\* the page list the split route builds from the text of the 'pages' field
page_list_of(pages) == expand_parts(str_split(pages, ","), 1, <<>>)

(***************************************************************************)
(* Users and passwords.                                                    *)
(***************************************************************************)
Salts == {"s1"}

\* werkzeug's generate_password_hash with the salt it drew
generate_password_hash(pwd, salt) == [salt |-> salt, digest |-> <<salt, pwd>>]

\* werkzeug's check_password_hash
check_password_hash(pwhash, pwd) == pwhash.digest = <<pwhash.salt, pwd>>

\* INSERT INTO users (username, password_hash) on a table whose username column
\* is UNIQUE and whose id is the row number
users_insert(tbl, uname, pwhash) ==
    IF \E i \in 1..Len(tbl) : tbl[i].username = uname
    THEN [exc |-> "IntegrityError", tbl |-> tbl]
    ELSE [exc |-> "",
          tbl |-> Append(tbl, [id |-> Len(tbl) + 1, username |-> uname,
                               password_hash |-> pwhash])]

\* SELECT * FROM users WHERE username = ? ... fetchone(): the rows that match,
\* the first of which is returned
users_select(tbl, uname) == SelectSeq(tbl, LAMBDA row : row.username = uname)

(***************************************************************************)
(* Requests.                                                               *)
(***************************************************************************)
Methods == {"GET", "POST"}
Usernames == {"alice", "bob"}
\* the passwords typed at login
Passwords == {"pw1", "pw2"}
\* the passwords chosen at registration
ChosenPasswords == {"pw1"}

\* a werkzeug FileStorage: the client's file name and the bytes sent
FileStorage(filename, data) == [filename |-> filename, data |-> data]

\* files a client may upload
f_docx == FileStorage(<<"r", ".", "d", "o", "c", "x">>, Office)
f_DOCX == FileStorage(<<"R", ".", "D", "O", "C", "X">>, Office)
f_ppt == FileStorage(<<"d", ".", "p", "p", "t">>, Office)
f_xlsx == FileStorage(<<"s", ".", "x", "l", "s", "x">>, Office)
f_png == FileStorage(<<"i", ".", "p", "n", "g">>, Picture)
f_jpg == FileStorage(<<"j", ".", "j", "p", "g">>, Junk)
f_a == FileStorage(<<"a", ".", "p", "d", "f">>, Pdf(DocPages("a", 2)))
f_b == FileStorage(<<"b", ".", "p", "d", "f">>, Pdf(DocPages("b", 1)))
f_txt == FileStorage(<<"n", ".", "t", "x", "t">>, Junk)
f_noname == FileStorage(<<>>, Junk)

\* request.files of a POST to an office or image route: no part, or one file
OneFile ==
    {<<>>, <<f_docx>>, <<f_DOCX>>, <<f_ppt>>, <<f_xlsx>>, <<f_png>>, <<f_jpg>>,
     <<f_txt>>, <<f_noname>>}

\* request.files of a split POST
SplitFiles == {<<>>, <<f_a>>, <<f_txt>>, <<f_noname>>}

\* request.files.getlist("files") of a merge POST
MergeFiles ==
    {<<>>, <<f_a>>, <<f_txt>>, <<f_a, f_b>>, <<f_a, f_txt>>, <<f_a, f_b, f_a>>}

\* request.form.get("pages") of a split POST: absent, or the text sent
PagesFields ==
    { [given |-> FALSE, text |-> <<>>],
      [given |-> TRUE, text |-> <<>>],
      [given |-> TRUE, text |-> <<"1">>],
      [given |-> TRUE, text |-> <<"2", ",", "1">>],
      [given |-> TRUE, text |-> <<"1", ",", "3">>],
      [given |-> TRUE, text |-> <<"1", ",", "x">>] }

\* a request as it arrives: nothing answered yet
Request(route, method) ==
    [route |-> route, method |-> method,
     username |-> "", password |-> "",   \* the form of a register or login POST
     nfiles |-> 0,                        \* the files of a merge POST
     gate |-> "passed",                   \* "redirected" when login_required cut it short
     status |-> "", to |-> "",            \* redirect/to, render/template, send_file/path, error
     flash |-> "", exc |-> "",
     stored |-> {},                       \* the uploads this request saved
     ran |-> <<>>,                        \* the utils operations this request invoked
     page_list |-> <<>>]                  \* the page list given to split_pdf

redirect(req, endpoint, msg) ==
    [req EXCEPT !.status = "redirect", !.to = endpoint, !.flash = msg]

render_template(req, template, msg) ==
    [req EXCEPT !.status = "render", !.to = template, !.flash = msg]

\* an exception no route catches: Flask answers 500
server_error(req, exc) == [req EXCEPT !.status = "error", !.exc = exc]

send_file(req) == [req EXCEPT !.status = "send_file"]

EmptySession == [k \in {} |-> 0]

(***************************************************************************)
(* login_required                                                          *)
(***************************************************************************)
\* login_required without its session check
login_required_open(req, fn) == fn

\* the wrapper: fn, the wrapped route's step, runs only with a user id in session
login_required(req, fn) ==
    IF "user_id" \notin DOMAIN session
    THEN /\ last' = [redirect(req, "login", "") EXCEPT !.gate = "redirected"]
         /\ UNCHANGED <<users, session, uploads, converted, uuid>>
    ELSE fn

(***************************************************************************)
(* The auth routes.                                                        *)
(***************************************************************************)
\* register with the IntegrityError swallowed
register_outcome_swallowed(req, r) ==
    redirect(req, "login", "Registered successfully")

\* the try/except around the INSERT: r is what the INSERT did
register_outcome(req, r) ==
    IF r.exc = ""
    THEN redirect(req, "login", "Registered successfully")
    ELSE render_template(req, "register.html", "Username already exists")

register ==
    /\ \E method \in Methods :
          IF method = "POST"
          THEN \E uname \in Usernames \cup {""}, pwd \in ChosenPasswords \cup {""},
                  salt \in Salts :
                  LET req == [Request("register", "POST") EXCEPT
                                  !.username = uname, !.password = pwd]
                  IN  IF uname = "" \/ pwd = ""
                      THEN /\ last' = redirect(req, "register", "Fill all fields")
                           /\ users' = users
                      ELSE LET r == users_insert(users, uname,
                                        generate_password_hash(pwd, salt))
                           IN  /\ users' = r.tbl
                               /\ last' = register_outcome(req, r)
          ELSE /\ last' = render_template(Request("register", "GET"),
                                          "register.html", "")
               /\ users' = users
    /\ UNCHANGED <<session, uploads, converted, uuid, args, ret>>

\* the login test without the password check
credentials_ok_any_password(rows, pwd) == rows # <<>>

\* if user and check_password_hash(user["password_hash"], pwd)
credentials_ok(rows, pwd) ==
    rows # <<>> /\ check_password_hash(rows[1].password_hash, pwd)

login ==
    /\ \E method \in Methods :
          IF method = "POST"
          THEN \E uname \in Usernames, pwd \in Passwords :
                  LET req == [Request("login", "POST") EXCEPT
                                  !.username = uname, !.password = pwd]
                      rows == users_select(users, uname)
                  IN  IF credentials_ok(rows, pwd)
                      THEN /\ session' = [k \in DOMAIN session \cup {"user_id"} |->
                                             IF k = "user_id" THEN rows[1].id
                                             ELSE session[k]]
                           /\ last' = redirect(req, "dashboard", "")
                      ELSE /\ session' = session
                           /\ last' = render_template(req, "login.html",
                                          "Invalid username or password")
          ELSE /\ session' = session
               /\ last' = render_template(Request("login", "GET"), "login.html", "")
    /\ UNCHANGED <<users, uploads, converted, uuid, args, ret>>

logout ==
    /\ session' = EmptySession
    /\ last' = redirect(Request("logout", "GET"), "login", "")
    /\ UNCHANGED <<users, uploads, converted, uuid, args, ret>>

(***************************************************************************)
(* The pages behind the gate.                                              *)
(***************************************************************************)
\* a route that only renders its template
page(route, template) ==
    /\ login_required(Request(route, "GET"),
          /\ last' = render_template(Request(route, "GET"), template, "")
          /\ UNCHANGED <<users, session, uploads, converted, uuid>>)
    /\ UNCHANGED <<args, ret>>

dashboard == page("dashboard", "dashboard.html")

unlock == page("unlock", "unlock.html")

ocr == page("ocr", "ocr.html")

(***************************************************************************)
(* The conversion routes.                                                  *)
(***************************************************************************)
\* request.files.get("file") is a file whose name is not empty (a FileStorage
\* with an empty name is falsy)
truthy(files) == files # <<>> /\ files[1].filename # <<>>

\* the POST branch shared by convert_word, convert_ppt and convert_excel: the
\* upload is saved and handed to convert_office_to_pdf when its lowered name
\* ends with one of exts
office_post(req, files, exts, template, msg) ==
    IF truthy(files) /\ EndsWithAny(Lower(files[1].filename), exts)
    THEN /\ uuid < MaxTokens
         /\ \E outcome \in SofficeOutcomes :
               LET filename == random_filename(uuid + 1, files[1].filename)
                   r == convert_office_to_pdf(filename, outcome, converted)
                   did == [req EXCEPT !.stored = {filename},
                                      !.ran = <<"convert_office_to_pdf">>]
               IN  /\ uuid' = uuid + 1
                   /\ uploads' = WriteFile(uploads, filename, files[1].data)
                   /\ converted' = r.outdir
                   /\ last' = IF r.exc # "" THEN server_error(did, r.exc)
                              ELSE [send_file(did) EXCEPT !.to = r.path]
         /\ UNCHANGED <<users, session>>
    ELSE /\ last' = render_template(req, template, msg)
         /\ UNCHANGED <<users, session, uploads, converted, uuid>>

\* the GET branch of a conversion route
form_get(req, template) ==
    /\ last' = render_template(req, template, "")
    /\ UNCHANGED <<users, session, uploads, converted, uuid>>

WordExts == {<<".", "d", "o", "c", "x">>}
PptExts == {<<".", "p", "p", "t">>, <<".", "p", "p", "t", "x">>}
ImageExts == {<<".", "j", "p", "g">>, <<".", "j", "p", "e", "g">>,
              <<".", "p", "n", "g">>}
ExcelExts == {<<".", "x", "l", "s">>, <<".", "x", "l", "s", "x">>}

convert_word ==
    /\ \E method \in Methods :
          login_required(Request("convert_word", method),
              IF method = "POST"
              THEN \E files \in OneFile :
                      office_post(Request("convert_word", method), files, WordExts,
                          "word_to_pdf.html", "Upload a valid .docx file!")
              ELSE form_get(Request("convert_word", method), "word_to_pdf.html"))
    /\ UNCHANGED <<args, ret>>

convert_ppt ==
    /\ \E method \in Methods :
          login_required(Request("convert_ppt", method),
              IF method = "POST"
              THEN \E files \in OneFile :
                      office_post(Request("convert_ppt", method), files, PptExts,
                          "ppt_to_pdf.html", "Upload a valid PPT or PPTX file!")
              ELSE form_get(Request("convert_ppt", method), "ppt_to_pdf.html"))
    /\ UNCHANGED <<args, ret>>

convert_excel ==
    /\ \E method \in Methods :
          login_required(Request("convert_excel", method),
              IF method = "POST"
              THEN \E files \in OneFile :
                      office_post(Request("convert_excel", method), files, ExcelExts,
                          "excel_to_pdf.html", "Upload a valid XLS or XLSX file!")
              ELSE form_get(Request("convert_excel", method), "excel_to_pdf.html"))
    /\ UNCHANGED <<args, ret>>

image_post(req, files) ==
    IF truthy(files) /\ EndsWithAny(Lower(files[1].filename), ImageExts)
    THEN /\ uuid < MaxTokens
         /\ LET filename == random_filename(uuid + 1, files[1].filename)
                up == WriteFile(uploads, filename, files[1].data)
                output_path == random_filename(uuid + 2,
                                   <<"i", "m", "a", "g", "e", ".", "p", "d", "f">>)
                r == image_to_pdf(filename, output_path, up, converted)
                did == [req EXCEPT !.stored = {filename},
                                   !.ran = <<"image_to_pdf">>]
            IN  /\ uuid' = uuid + 2
                /\ uploads' = up
                /\ converted' = r.outdir
                /\ last' = IF r.exc # "" THEN server_error(did, r.exc)
                           ELSE [send_file(did) EXCEPT !.to = output_path]
         /\ UNCHANGED <<users, session>>
    ELSE /\ last' = render_template(req, "image_to_pdf.html",
                                    "Upload a JPG, JPEG, or PNG image!")
         /\ UNCHANGED <<users, session, uploads, converted, uuid>>

convert_image ==
    /\ \E method \in Methods :
          login_required(Request("convert_image", method),
              IF method = "POST"
              THEN \E files \in OneFile :
                      image_post(Request("convert_image", method), files)
              ELSE form_get(Request("convert_image", method), "image_to_pdf.html"))
    /\ UNCHANGED <<args, ret>>

(***************************************************************************)
(* merge and split.                                                        *)
(***************************************************************************)
\* for f in files: save each under a fresh random name; the k-th gets token n + k
saved_paths(files, n) ==
    [k \in 1..Len(files) |-> random_filename(n + k, files[k].filename)]

\* the upload directory after those saves
RECURSIVE save_all(_, _, _, _)
save_all(dir, files, paths, k) ==
    IF k > Len(files) THEN dir
    ELSE save_all(WriteFile(dir, paths[k], files[k].data), files, paths, k + 1)

\* the merge check with the wrong count
too_few_below_one(files) == Len(files) < 1

\* if len(files) < 2
too_few(files) == Len(files) < 2

merge_post(req0, files) ==
    LET req == [req0 EXCEPT !.nfiles = Len(files)]
    IN  IF too_few(files)
        THEN /\ last' = redirect(req, "merge", "Upload at least 2 PDFs")
             /\ UNCHANGED <<users, session, uploads, converted, uuid>>
        ELSE /\ uuid < MaxTokens
             /\ LET file_paths == saved_paths(files, uuid)
                    up == save_all(uploads, files, file_paths, 1)
                    output_path == random_filename(uuid + Len(files) + 1,
                              <<"m", "e", "r", "g", "e", "d", ".", "p", "d", "f">>)
                    r == merge_pdfs(file_paths, output_path, up, converted)
                    did == [req EXCEPT
                               !.stored = {file_paths[k] : k \in 1..Len(files)},
                               !.ran = <<"merge_pdfs">>]
                IN  /\ uuid' = uuid + Len(files) + 1
                    /\ uploads' = up
                    /\ converted' = r.outdir
                    /\ last' = IF r.exc # "" THEN server_error(did, r.exc)
                               ELSE [send_file(did) EXCEPT !.to = output_path]
             /\ UNCHANGED <<users, session>>

merge ==
    /\ \E method \in Methods :
          login_required(Request("merge", method),
              IF method = "POST"
              THEN \E files \in MergeFiles :
                      merge_post(Request("merge", method), files)
              ELSE form_get(Request("merge", method), "merge.html"))
    /\ UNCHANGED <<args, ret>>

split_post(req, files, pages) ==
    IF ~truthy(files) \/ ~pages.given \/ pages.text = <<>>
    THEN /\ last' = redirect(req, "split", "Upload PDF and enter pages!")
         /\ UNCHANGED <<users, session, uploads, converted, uuid>>
    ELSE /\ uuid < MaxTokens
         /\ LET filename == random_filename(uuid + 1, files[1].filename)
                up == WriteFile(uploads, filename, files[1].data)
                pl == page_list_of(pages.text)
                saved == [req EXCEPT !.stored = {filename}]
            IN  /\ uploads' = up
                /\ IF pl.exc # ""
                   THEN /\ uuid' = uuid + 1
                        /\ converted' = converted
                        /\ last' = server_error(saved, pl.exc)
                   ELSE LET output_path == random_filename(uuid + 2,
                                 <<"s", "p", "l", "i", "t", ".", "p", "d", "f">>)
                            r == split_pdf(filename, pl.list, output_path,
                                           up, converted)
                            did == [saved EXCEPT !.ran = <<"split_pdf">>,
                                                 !.page_list = pl.list]
                        IN  /\ uuid' = uuid + 2
                            /\ converted' = r.outdir
                            /\ last' = IF r.exc # ""
                                       THEN server_error(did, r.exc)
                                       ELSE [send_file(did) EXCEPT
                                                 !.to = output_path]
         /\ UNCHANGED <<users, session>>

split ==
    /\ \E method \in Methods :
          login_required(Request("split", method),
              IF method = "POST"
              THEN \E files \in SplitFiles, pages \in PagesFields :
                      split_post(Request("split", method), files, pages)
              ELSE form_get(Request("split", method), "split.html"))
    /\ UNCHANGED <<args, ret>>

(***************************************************************************)
(* The application.                                                        *)
(***************************************************************************)
NoCall == [fn |-> "none"]

Init ==
    /\ users = <<>>
    /\ session = EmptySession
    /\ uploads = {}
    /\ converted = {}
    /\ uuid = 0
    /\ last = Request("none", "GET")
    /\ args = NoCall
    /\ ret = NoCall

Next ==
    \/ register
    \/ login
    \/ logout
    \/ dashboard
    \/ unlock
    \/ ocr
    \/ convert_word
    \/ convert_ppt
    \/ convert_image
    \/ convert_excel
    \/ merge
    \/ split

Spec == Init /\ [][Next]_vars

(***************************************************************************)
(* Direct calls of split_pdf, of merge_pdfs and of the page-list expansion *)
(* of the split route, on inputs drawn from bounded sets.                  *)
(***************************************************************************)
\* the sequences over S of length at most n
SeqsUpTo(S, n) == UNION {[1..k -> S] : k \in 0..n}

src_pdf == [token |-> 0, ext |-> <<".", "p", "d", "f">>]
out_pdf == [token |-> 1, ext |-> <<".", "p", "d", "f">>]

\* split_pdf on a source of npages pages and a page list with entries from 0 to
\* one past the largest page count
SplitCalls ==
    {[fn |-> "split_pdf", npages |-> n, pages |-> pl] :
        n \in 0..MaxDocPages, pl \in SeqsUpTo(0..(MaxDocPages + 1), MaxPages)}

\* merge_pdfs on documents of the given page counts
MergeCalls ==
    {[fn |-> "merge_pdfs", counts |-> c] : c \in SeqsUpTo(0..MaxDocPages, MaxDocs)}

\* a part of a 'pages' field: a single number lo, or the range lo-hi
Singles == {[range |-> FALSE, lo |-> n, hi |-> n] : n \in (0..MaxNum) \cup {7, 12}}
Ranges == {[range |-> TRUE, lo |-> a, hi |-> b] : a, b \in 1..MaxNum}

\* n in decimal
RECURSIVE str(_)
str(n) ==
    IF n < 10 THEN <<DigitChars[n + 1]>>
    ELSE str(n \div 10) \o <<DigitChars[(n % 10) + 1]>>

\* a part as a client writes it
part_text(part) ==
    IF part.range THEN str(part.lo) \o <<"-">> \o str(part.hi) ELSE str(part.lo)

\* the parts joined by commas, with a blank after each comma when spaced
RECURSIVE pages_text(_, _)
pages_text(parts, spaced) ==
    IF Len(parts) = 1 THEN part_text(parts[1])
    ELSE part_text(parts[1]) \o (IF spaced THEN <<",", " ">> ELSE <<",">>)
         \o pages_text(Tail(parts), spaced)

PageListCalls ==
    {[fn |-> "page_list", parts |-> ps, text |-> pages_text(ps, sp)] :
        ps \in SeqsUpTo(Singles \cup Ranges, MaxParts) \ {<<>>}, sp \in BOOLEAN}

InitCalls ==
    /\ users = <<>>
    /\ session = EmptySession
    /\ uploads = {}
    /\ converted = {}
    /\ uuid = 0
    /\ last = Request("none", "GET")
    /\ args \in SplitCalls \cup MergeCalls \cup PageListCalls
    /\ ret = NoCall

call_split_pdf ==
    /\ args.fn = "split_pdf"
    /\ ret = NoCall
    /\ LET indir == {[name |-> src_pdf, data |-> Pdf(DocPages("src", args.npages))]}
           r == split_pdf(src_pdf, args.pages, out_pdf, indir, {})
       IN  ret' = [fn |-> "split_pdf", exc |-> r.exc, outdir |-> r.outdir]
    /\ UNCHANGED <<appVars, args>>

\* the i-th input of a merge call: a document of counts[i] pages
merge_input(i) == [token |-> i, ext |-> <<".", "p", "d", "f">>]

call_merge_pdfs ==
    /\ args.fn = "merge_pdfs"
    /\ ret = NoCall
    /\ LET k == Len(args.counts)
           indir == {[name |-> merge_input(i),
                      data |-> Pdf(DocPages(i, args.counts[i]))] : i \in 1..k}
           r == merge_pdfs([i \in 1..k |-> merge_input(i)], merge_input(0),
                           indir, {})
       IN  ret' = [fn |-> "merge_pdfs", exc |-> r.exc, outdir |-> r.outdir]
    /\ UNCHANGED <<appVars, args>>

call_page_list ==
    /\ args.fn = "page_list"
    /\ ret = NoCall
    /\ LET r == page_list_of(args.text)
       IN  ret' = [fn |-> "page_list", exc |-> r.exc, list |-> r.list]
    /\ UNCHANGED <<appVars, args>>

NextCalls ==
    \/ call_split_pdf
    \/ call_merge_pdfs
    \/ call_page_list

SpecCalls == InitCalls /\ [][NextCalls]_vars

(***************************************************************************)
(* Properties.                                                             *)
(***************************************************************************)
GatedRoutes == {"dashboard", "convert_word", "convert_ppt", "convert_image",
                "convert_excel", "merge", "split"}

ConversionRoutes == {"convert_word", "convert_ppt", "convert_image",
                     "convert_excel", "merge", "split"}

LoggedIn == "user_id" \in DOMAIN session

\* the last request was answered with a redirect or a page carrying a message
UserMessage == last.status \in {"redirect", "render"} /\ last.flash # ""

\* C1: the body of a gated route runs only when the session holds a user id;
\* without one the request is redirected to login, the body does not run, and
\* the request stores no upload and no output file.
C1_GatedOnlyWithUserId ==
    /\ [](last.route \in GatedRoutes =>
            /\ last.gate = "passed" => LoggedIn
            /\ ~LoggedIn => /\ last.gate = "redirected"
                            /\ last.status = "redirect" /\ last.to = "login"
                            /\ last.stored = {} /\ last.ran = <<>>)
    /\ [][(~LoggedIn /\ last'.route \in GatedRoutes) =>
            /\ last'.gate = "redirected"
            /\ uploads' = uploads /\ converted' = converted /\ uuid' = uuid]_vars

\* a POST to split is turned away at the gate after a user registered, logged
\* in, stored a file and logged out
C1_Witness ==
    /\ last.route = "split" /\ last.method = "POST"
    /\ last.gate = "redirected" /\ last.to = "login"
    /\ ~LoggedIn /\ users # <<>> /\ uploads # {}

\* the rows of tbl with username uname
RowsOf(tbl, uname) == {i \in 1..Len(tbl) : tbl[i].username = uname}

\* the password pwd is the one row i of tbl was registered with
RightPassword(tbl, i, pwd) ==
    tbl[i].password_hash.digest = <<tbl[i].password_hash.salt, pwd>>

LoginPost(r) == r.route = "login" /\ r.method = "POST"

RegisterPost(r) ==
    r.route = "register" /\ r.method = "POST" /\ r.username # "" /\ r.password # ""

\* C3: no two rows of users share a username; a register POST (both fields
\* filled in) for a username not yet in the table appends one row for it and
\* succeeds, and one for a username already there gets 'Username already
\* exists' and leaves the table unchanged.
C3_UniqueUsernames ==
    /\ [](\A i, j \in 1..Len(users) : users[i].username = users[j].username => i = j)
    /\ [][RegisterPost(last') =>
            IF RowsOf(users, last'.username) = {}
            THEN /\ Len(users') = Len(users) + 1
                 /\ SubSeq(users', 1, Len(users)) = users
                 /\ users'[Len(users')].username = last'.username
                 /\ last'.status = "redirect" /\ last'.to = "login"
                 /\ last'.flash = "Registered successfully"
            ELSE /\ users' = users
                 /\ last'.status = "render"
                 /\ last'.flash = "Username already exists"]_vars

\* a second registration of a name already in the table has just been refused
C3_Witness ==
    /\ RegisterPost(last) /\ last.flash = "Username already exists"
    /\ RowsOf(users, last.username) # {}
    /\ Len(users) = 2

\* the file split_pdf or merge_pdfs wrote at path, as a set (empty when none)
Written(path) == {f \in ret.outdir : f.name = path}

ValidPages == \A i \in 1..Len(args.pages) : args.pages[i] \in 1..args.npages

\* C4: for a page list with every entry in 1..n, split_pdf writes an output
\* with as many pages as the list has entries, the i-th being source page
\* pages[i], in the caller's order, duplicates kept.
C4_SplitMirrorsList ==
    (ret.fn = "split_pdf" /\ ValidPages) =>
        /\ ret.exc = ""
        /\ \E f \in Written(out_pdf) :
              /\ f.data.kind = "pdf"
              /\ Len(f.data.pages) = Len(args.pages)
              /\ \A i \in 1..Len(args.pages) :
                    f.data.pages[i] = <<"src", args.pages[i]>>

\* split_pdf has written pages 3, 1, 1 of a three-page source
C4_Witness ==
    /\ ret.fn = "split_pdf" /\ args.npages = 3 /\ args.pages = <<3, 1, 1>>
    /\ \E f \in Written(out_pdf) : Len(f.data.pages) = 3

RECURSIVE Sum(_, _)
Sum(counts, i) == IF i > Len(counts) THEN 0 ELSE counts[i] + Sum(counts, i + 1)

\* document i's pages in order, then those of the documents after it
RECURSIVE InOrder(_, _)
InOrder(counts, i) ==
    IF i > Len(counts) THEN <<>>
    ELSE [j \in 1..counts[i] |-> <<i, j>>] \o InOrder(counts, i + 1)

\* C5: merge_pdfs on k readable documents with p1..pk pages writes an output
\* of p1+...+pk pages: the pages of document 1 in order, then those of
\* document 2, and so on.
C5_MergeConcatenates ==
    ret.fn = "merge_pdfs" =>
        /\ ret.exc = ""
        /\ \E f \in Written(merge_input(0)) :
              /\ Len(f.data.pages) = Sum(args.counts, 1)
              /\ f.data.pages = InOrder(args.counts, 1)

\* merge_pdfs has merged documents of 2, 0 and 3 pages
C5_Witness ==
    /\ ret.fn = "merge_pdfs" /\ args.counts = <<2, 0, 3>>
    /\ \E f \in Written(merge_input(0)) : Len(f.data.pages) = 5

\* C6: if an entry of the page list is below 1 or above the source's page
\* count, split_pdf raises the out-of-range error and no file exists at
\* out_path, wherever in the list the bad entry is.
C6_SplitOutOfRange ==
    (ret.fn = "split_pdf" /\ ~ValidPages) =>
        ret.exc = "IndexError" /\ Written(out_pdf) = {}

\* split_pdf has refused a list whose bad entry follows two valid ones
C6_Witness ==
    /\ ret.fn = "split_pdf" /\ args.npages = 2 /\ args.pages = <<1, 2, 3>>
    /\ ret.exc = "IndexError"

FewFilesMerge(r) == r.route = "merge" /\ r.method = "POST" /\ r.nfiles < 2

\* C7: a merge POST with fewer than 2 files is answered with a message
\* without merge_pdfs being invoked and without any upload or output stored.
C7_MergeNeedsTwo ==
    /\ []((FewFilesMerge(last) /\ last.gate = "passed") =>
            /\ last.status = "redirect" /\ last.to = "merge"
            /\ last.flash = "Upload at least 2 PDFs"
            /\ last.stored = {} /\ last.ran = <<>>)
    /\ [][FewFilesMerge(last') =>
            uploads' = uploads /\ converted' = converted /\ uuid' = uuid]_vars

\* a logged-in user's merge POST with one file has just been refused
C7_Witness ==
    /\ FewFilesMerge(last) /\ last.nfiles = 1 /\ last.gate = "passed"
    /\ last.flash = "Upload at least 2 PDFs"

\* the split route gave split_pdf a readable source and a page list with an
\* entry outside 1..page count
SplitOutOfRange ==
    /\ last.route = "split" /\ last.ran = <<"split_pdf">>
    /\ \E f \in last.stored :
          /\ ReadFile(uploads, f).kind = "pdf"
          /\ \E i \in 1..Len(last.page_list) :
                last.page_list[i] \notin 1..Len(ReadFile(uploads, f).pages)

\* C8: on the conversion routes a validation error (an upload refused, a
\* missing field, a page number out of range) ends with a redirect or a page
\* carrying a message, never with an unhandled server error.
C8_ValidationErrorsSurfaced ==
    (last.route \in ConversionRoutes /\ last.method = "POST"
        /\ last.gate = "passed") =>
        /\ last.stored = {} => UserMessage
        /\ SplitOutOfRange => UserMessage

\* the file types each route converts or assembles
AcceptedExts(route) ==
    CASE route = "convert_word" -> WordExts
      [] route = "convert_ppt" -> PptExts
      [] route = "convert_image" -> ImageExts
      [] route = "convert_excel" -> ExcelExts
      [] OTHER -> {<<".", "p", "d", "f">>}

\* C9: on every conversion route no upload is stored and no converter or
\* assembler runs unless the file's extension was checked and accepted for
\* the route.
C9_ExtensionCheckedFirst ==
    last.route \in ConversionRoutes =>
        /\ \A f \in last.stored : Lower(f.ext) \in AcceptedExts(last.route)
        /\ last.ran # <<>> => last.stored # {}

\* the list a part stands for: [n] for a single number, [a, ..., b] for a range
PartPages(part) ==
    IF part.range THEN [k \in 1..(part.hi - part.lo + 1) |-> part.lo + k - 1]
    ELSE <<part.lo>>

RECURSIVE Concatenated(_, _)
Concatenated(parts, i) ==
    IF i > Len(parts) THEN <<>>
    ELSE PartPages(parts[i]) \o Concatenated(parts, i + 1)

\* C10: the 'pages' field, a comma-separated list of single numbers and
\* inclusive ranges a-b, expands to the concatenation, in the order the parts
\* are given, of [n] for each number and [a, ..., b] for each range.
C10_PagesExpandInOrder ==
    ret.fn = "page_list" =>
        ret.exc = "" /\ ret.list = Concatenated(args.parts, 1)

\* "7,2-4" has been expanded to 7, 2, 3, 4
C10_Witness ==
    /\ ret.fn = "page_list"
    /\ args.text = <<"7", ",", "2", "-", "4">>
    /\ ret.list = <<7, 2, 3, 4>>

====
